---- MODULE Spec2Model ----
(***************************************************************************)
(* Model of the concept2-data-analyzer core:                               *)
(*   - DataAnalyzer.get_summary_stats / get_split_analysis                 *)
(*     (src/src/data_analyzer.py)                                          *)
(*   - PM5Simulator.get_monitor_data / get_status                          *)
(*     (src/src/pm5_simulator.py)                                          *)
(*   - DataRecorder (src/src/data_recorder.py)                             *)
(*   - WorkoutMonitor.run / input_thread (src/src/main.py)                 *)
(*                                                                         *)
(* Units.  Python floats are modelled in fixed point:                      *)
(*   time (in a sample), wall clock      tenths of a second                *)
(*     (time_unit = "min_float": the samples' times count multiples of     *)
(*      the smallest positive float, 5e-324 s)                             *)
(*   workout_time (simulator state)      hundredths of a second            *)
(*   distance (in a sample)              whole metres (int(...))           *)
(*   total_distance (simulator state)    hundredths of a metre             *)
(*   stroke_length                       hundredths of a metre             *)
(*   stroke_rate                         tenths of a stroke per minute     *)
(*   pace (in a sample)                  tenths of a second per 500 m      *)
(*   pace (simulator, current_pace)      whole seconds per 500 m           *)
(*   power                               whole watts                       *)
(*   calories                            tenths of a calorie               *)
(* Sequence indices of the source are 0-based; At(s, i) reads s[i].        *)
(***************************************************************************)
EXTENDS Integers, Sequences, FiniteSets, TLC

VARIABLES
    \* DataAnalyzer
    data,            \* self.data
    time_unit,       \* what 1 stands for in the `time` values of self.data
    pc,              \* position of the caller in get_split_analysis
    i,               \* loop index of get_split_analysis (0-based)
    splits,          \* local list `splits`
    current_split,   \* local dict `current_split`
    split_distance,  \* argument of get_split_analysis
    split_result,    \* value returned by get_split_analysis
    stats,           \* value returned by get_summary_stats
    \* PM5Simulator
    connected, workout_time, total_distance, stroke_count, is_rowing,
    target_spm, target_pace, last_stroke_time,
    current_time,    \* time.time(), the wall clock
    sample,          \* value returned by the last get_monitor_data
    active,          \* outcome of `random.random() < 0.8` in the last call
    calls,           \* number of get_monitor_data calls made so far
    \* DataRecorder
    recorder,        \* the attributes of the DataRecorder and its files
    returned,        \* value returned by the last DataRecorder call
    \* WorkoutMonitor
    monitor_recording,      \* self.recording of the WorkoutMonitor
    running,                \* self.running
    command,                \* self.command, the slot shared by both threads
    recent_stroke_lengths,  \* self.recent_stroke_lengths
    last_stroke_count,      \* self.last_stroke_count
    main_pc,         \* position of the main thread in run
    cmd,             \* local `cmd` of run
    input_pc,        \* position of the input thread in input_thread
    \* history of the WorkoutMonitor, read by the properties only
    stored,          \* the lines the input thread stored in self.command
    processed,       \* indices in `stored` of the lines run has dispatched
    slot_id,         \* index in `stored` of the line in self.command, 0 if none
    cmd_id,          \* index in `stored` of the line in `cmd`, 0 if none
    passed           \* samples passed to record_data since the last start

analyzerVars == <<data, time_unit, pc, i, splits, current_split, split_distance,
                  split_result, stats>>
simVars == <<connected, workout_time, total_distance, stroke_count, is_rowing,
             target_spm, target_pace, last_stroke_time, current_time, sample,
             active, calls>>
recorderVars == <<recorder, returned>>
monitorVars == <<monitor_recording, running, command, recent_stroke_lengths,
                 last_stroke_count, main_pc, cmd, input_pc, stored, processed,
                 slot_id, cmd_id, passed>>
driverVars == <<recorderVars, monitorVars>>
vars == <<analyzerVars, simVars, driverVars>>

-----------------------------------------------------------------------------
(* Bounds of the model *)

\* longest sample sequence with non-decreasing distance handed to the analyzer
MaxLen == 5
\* longest sample sequence with arbitrary distances
MaxAnyLen == 3
\* longest sample sequence with freely chosen readings (summary statistics)
MaxStatLen == 4
\* most get_monitor_data calls on one simulator
MaxCalls == 4
\* most samples in the buffer of the recorder driven on its own
MaxBuffer == 3
\* most files one recorder creates when driven on its own
MaxFiles == 2
\* most lines the input thread reads in one run of the monitor
MaxCommands == 2

-----------------------------------------------------------------------------
(* Generic helpers *)

At(s, k) == s[k + 1]

RECURSIVE SumSeq(_)
SumSeq(s) == IF s = <<>> THEN 0 ELSE Head(s) + SumSeq(Tail(s))

\* the first element taken for the largest
MaxSeq_First(s) == s[1]

RECURSIVE MaxSeq(_)
MaxSeq(s) ==
    IF Len(s) = 1 THEN s[1]
    ELSE LET m == MaxSeq(Tail(s)) IN IF s[1] >= m THEN s[1] ELSE m

RECURSIVE MinSeq(_)
MinSeq(s) ==
    IF Len(s) = 1 THEN s[1]
    ELSE LET m == MinSeq(Tail(s)) IN IF s[1] <= m THEN s[1] ELSE m

SeqsUpTo(S, n) == UNION {[1..k -> S] : k \in 0..n}

NonDecreasing(s) == \A k \in 1..(Len(s) - 1) : s[k] <= s[k + 1]

\* a rational number num/den, den > 0
Rat(n, d) == [num |-> n, den |-> d]
RatLeq(a, b) == a.num * b.den <= b.num * a.den

-----------------------------------------------------------------------------
(* DataAnalyzer.get_summary_stats *)

NoResult == [kind |-> "none"]
\* the empty dict `{}`
EmptyStats == [kind |-> "empty"]
Raised(exc) == [kind |-> "raise", exc |-> exc]
Value(v) == [kind |-> "value", v |-> v]

\* the filter with >= in place of >: zero readings pass
IsValidReading_WithZero(v) == v >= 0

\* the filter `d.get(field, 0) > 0` of the list comprehensions
IsValidReading(v) == v > 0

FieldValues(d, f) == [k \in 1..Len(d) |-> d[k][f]]

\* the list without the filter: every reading, zeros included
Filtered_Unfiltered(d, f) == FieldValues(d, f)

Filtered(d, f) == SelectSeq(FieldValues(d, f), IsValidReading)

\* statistics.mean of a non-empty list, as an exact fraction
Mean(s) == Rat(SumSeq(s), Len(s))

MeanOrZero(s) == IF s # <<>> THEN Mean(s) ELSE Rat(0, 1)

SumSquares(s) == SumSeq([k \in 1..Len(s) |-> s[k] * s[k]])

\* statistics.stdev squared (the sample variance), as an exact fraction:
\* (n * sum(x^2) - sum(x)^2) / (n * (n - 1))
Variance(s) ==
    LET n == Len(s)
        S == SumSeq(s)
    IN  Rat(n * SumSquares(s) - S * S, n * (n - 1))

\* The consistency value 100 * (1 - sign * sqrt(cv2)) is carried as the sign
\* of stdev / mean and cv2, the square of stdev / mean; the literal 100 has
\* cv2 = 0.
Consistency(sign, cv2) == [kind |-> "value", sign |-> sign, cv2 |-> cv2]

Hundred == Consistency(1, Rat(0, 1))

Sign(n) == IF n > 0 THEN 1 ELSE IF n < 0 THEN 0 - 1 ELSE 0

\* the formula with + in place of -: (1 + stdev / avg) * 100
ConsistencyPercent_Plus(variance, avg) ==
    Consistency(0 - Sign(avg.num),
                Rat(variance.num * avg.den * avg.den,
                    variance.den * avg.num * avg.num))

\* line 42: (1 - (stroke_length_stdev / avg_stroke_length)) * 100, avg # 0
ConsistencyPercent(variance, avg) ==
    Consistency(Sign(avg.num),
                Rat(variance.num * avg.den * avg.den,
                    variance.den * avg.num * avg.num))

\* lines 40-44: the branch on len(stroke_lengths); stdev / avg divides by avg
StrokeLengthConsistency(stroke_lengths, avg) ==
    IF Len(stroke_lengths) > 1
    THEN IF avg.num = 0
         THEN Raised("ZeroDivisionError")
         ELSE ConsistencyPercent(Variance(stroke_lengths), avg)
    ELSE Hundred

\* the division without the guard on total_time
\* line 61: whether the float total_time / 3600 is 0.0.  A quotient of at most
\* half the smallest positive float rounds to 0.0; a time of 0.1 s or more
\* never gives one.
HoursRoundToZero(total_time) ==
    time_unit = "min_float" /\ 2 * total_time <= 3600

\* line 61
CaloriesPerHour(calories, total_time) ==
    IF total_time > 0
    THEN IF HoursRoundToZero(total_time) THEN Raised("ZeroDivisionError")
         ELSE Value(Rat(3600 * calories, total_time))
    ELSE Value(Rat(0, 1))

\* the first sample taken for the last one
FinalData_First(d) == d[1]

\* line 28: self.data[-1]
FinalData(d) == d[Len(d)]

\* lines 21-62: the statistics of a non-empty sequence
StatsOf(d) ==
    LET stroke_lengths == Filtered(d, "stroke_length")
        stroke_rates == Filtered(d, "stroke_rate")
        paces == Filtered(d, "pace")
        powers == Filtered(d, "power")
        final_data == FinalData(d)
        total_time == final_data.time
        avg_stroke_length == MeanOrZero(stroke_lengths)
        consistency == StrokeLengthConsistency(stroke_lengths, avg_stroke_length)
        calories_per_hour == CaloriesPerHour(final_data.calories, total_time)
    IN  IF consistency.kind = "raise" THEN consistency
        ELSE IF calories_per_hour.kind = "raise" THEN calories_per_hour
        ELSE [kind |-> "stats",
              total_time |-> total_time,
              total_distance |-> final_data.distance,
              total_strokes |-> final_data.stroke_count,
              avg_stroke_length |-> avg_stroke_length,
              best_stroke_length |->
                  IF stroke_lengths # <<>> THEN MaxSeq(stroke_lengths) ELSE 0,
              worst_stroke_length |->
                  IF stroke_lengths # <<>> THEN MinSeq(stroke_lengths) ELSE 0,
              stroke_length_consistency |-> consistency,
              avg_stroke_rate |-> MeanOrZero(stroke_rates),
              avg_pace |-> MeanOrZero(paces),
              avg_power |-> MeanOrZero(powers),
              avg_calories_per_hour |-> calories_per_hour.v]

\* the function without the check of lines 18-19: self.data[-1] of an empty list
SummaryStats_NoEmptyCheck(d) ==
    IF d = <<>> THEN Raised("IndexError") ELSE StatsOf(d)

\* lines 16-62
SummaryStats(d) == IF d = <<>> THEN EmptyStats ELSE StatsOf(d)

-----------------------------------------------------------------------------
(* DataAnalyzer.get_split_analysis *)

\* line 112
InitialSplit == [start_idx |-> 0, start_distance |-> 0]

\* line 118
SplitCompleted(distance, cs, sd) == distance >= cs.start_distance + sd

\* line 120: self.data[start_idx : i + 1]
SplitData(d, cs, idx) == SubSeq(d, cs.start_idx + 1, idx + 1)

\* the split time taken as the time of the closing sample alone
SplitInfo_AbsoluteTime(split_data, number, sd, first_idx, last_idx) ==
    [split_number |-> number,
     distance |-> sd,
     avg_stroke_length |-> MeanOrZero(Filtered(split_data, "stroke_length")),
     avg_pace |-> MeanOrZero(Filtered(split_data, "pace")),
     avg_power |-> MeanOrZero(Filtered(split_data, "power")),
     time |-> split_data[Len(split_data)].time,
     first_idx |-> first_idx,
     last_idx |-> last_idx]

\* lines 123-134; first_idx and last_idx record the bounds of split_data
SplitInfo(split_data, number, sd, first_idx, last_idx) ==
    [split_number |-> number,
     distance |-> sd,
     avg_stroke_length |-> MeanOrZero(Filtered(split_data, "stroke_length")),
     avg_pace |-> MeanOrZero(Filtered(split_data, "pace")),
     avg_power |-> MeanOrZero(Filtered(split_data, "power")),
     time |-> split_data[Len(split_data)].time - split_data[1].time,
     first_idx |-> first_idx,
     last_idx |-> last_idx]

\* the next split starting after the boundary sample: no shared sample
NextSplit_AfterBoundary(idx, distance) ==
    [start_idx |-> idx + 1, start_distance |-> distance]

\* the next split starting one sample before the boundary sample
NextSplit_OneEarlier(idx, distance) ==
    [start_idx |-> IF idx > 0 THEN idx - 1 ELSE 0, start_distance |-> distance]

\* line 139
NextSplit(idx, distance) == [start_idx |-> idx, start_distance |-> distance]

\* lines 114-139: one iteration of the loop body, as the new (splits, current_split)
LoopBody(d, idx, sp, cs, sd) ==
    LET distance == At(d, idx).distance IN
    IF SplitCompleted(distance, cs, sd)
    THEN LET split_data == SplitData(d, cs, idx) IN
         [splits |-> IF split_data # <<>>
                     THEN Append(sp, SplitInfo(split_data, Len(sp) + 1, sd,
                                               cs.start_idx, idx))
                     ELSE sp,
          current_split |-> NextSplit(idx, distance)]
    ELSE [splits |-> sp, current_split |-> cs]

-----------------------------------------------------------------------------
(* Inputs of the analyzer: sample sequences as the recorder buffers them *)

Dists == {0, 100, 250, 520, 640}
SplitDistances == {250, 500}
\* units of the samples' times: 0.1 s, or the smallest positive float
TimeUnits == {"tenth", "min_float"}

\* a sample taken while rowing: one stroke per metre, steady readings
RowingSample(t, d) ==
    [time |-> t, distance |-> d, stroke_rate |-> 350, pace |-> 1000,
     power |-> 350, calories |-> t, heart_rate |-> 175, stroke_count |-> d,
     stroke_length |-> IF d > 0 THEN (d * 100) \div d ELSE 0]

\* times start at 0 or 0.5 s and grow by 0 or 0.5 s per sample
TimeSeqs(n) ==
    {[k \in 1..n |-> t0 + 5 * SumSeq(SubSeq(inc, 1, k - 1))] :
        t0 \in {0, 5}, inc \in [1..(n - 1) -> {0, 1}]}

\* up to n samples with non-decreasing distance, up to m with any distances
DistSeqs(n, m) ==
    {ds \in SeqsUpTo(Dists, n) : NonDecreasing(ds)} \cup SeqsUpTo(Dists, m)

SplitInputs(n, m) ==
    UNION {{[k \in 1..Len(ds) |-> RowingSample(ts[k], ds[k])] :
                ts \in TimeSeqs(Len(ds))} : ds \in DistSeqs(n, m)}

\* readings of one sample: 0 is the monitor's "no reading"
Readings ==
    {[stroke_length |-> 0, stroke_rate |-> 0, pace |-> 0, power |-> 0],
     [stroke_length |-> 140, stroke_rate |-> 350, pace |-> 1000, power |-> 350],
     [stroke_length |-> 155, stroke_rate |-> 0, pace |-> 950, power |-> 0],
     [stroke_length |-> 0, stroke_rate |-> 320, pace |-> 0, power |-> 408],
     [stroke_length |-> 10, stroke_rate |-> 380, pace |-> 1050, power |-> 302]}

ReadingSample(k, r, clock) ==
    [time |-> IF clock THEN 5 * k ELSE 0, distance |-> 2 * k,
     stroke_rate |-> r.stroke_rate, pace |-> r.pace, power |-> r.power,
     calories |-> 3 * k, heart_rate |-> 140, stroke_count |-> k,
     stroke_length |-> r.stroke_length]

StatInputs(n) ==
    {[k \in 1..Len(rs) |-> ReadingSample(k, rs[k], clock)] :
        rs \in SeqsUpTo(Readings, n), clock \in BOOLEAN}

-----------------------------------------------------------------------------
(* PM5Simulator.__init__ *)

NoSample == [kind |-> "None"]

SimConstructed(spm, pace) ==
    /\ connected = FALSE
    /\ workout_time = 0
    /\ total_distance = 0
    /\ stroke_count = 0
    /\ is_rowing = FALSE
    /\ target_spm = spm
    /\ target_pace = pace
    /\ last_stroke_time = 0
    /\ sample = NoSample
    /\ active = FALSE
    /\ calls = 0

\* time.time() when the program starts
StartTime == 1000

-----------------------------------------------------------------------------
(* DataRecorder.  A file is named by its index in `files`; 0 stands for None *)
(* in current_file, csv_writer and file_handle.                              *)

\* lines 15-25
NewRecorder ==
    [current_file |-> 0, csv_writer |-> 0, file_handle |-> 0,
     recording |-> FALSE, data_buffer |-> <<>>,
     files |-> <<>>]    \* the files created in data_dir: open?, rows written

Returned(call, value) == [call |-> call, value |-> value]
NothingReturned == Returned("none", 0)

\* start_recording without the check of lines 32-34
StartRecording_NoGuard(rec) ==
    LET id == Len(rec.files) + 1
    IN  [rec |-> [current_file |-> id, csv_writer |-> id, file_handle |-> id,
                  recording |-> TRUE, data_buffer |-> <<>>,
                  files |-> Append(rec.files, [open |-> TRUE, rows |-> 0])],
         ret |-> id]

\* lines 27-60: the recorder after the call and the value returned
StartRecording(rec) ==
    IF rec.recording THEN [rec |-> rec, ret |-> 0]
    ELSE LET id == Len(rec.files) + 1
         IN  [rec |-> [current_file |-> id, csv_writer |-> id,
                       file_handle |-> id, recording |-> TRUE,
                       data_buffer |-> <<>>,
                       files |-> Append(rec.files,
                                        [open |-> TRUE, rows |-> 0])],
              ret |-> id]

\* lines 69-72: {'timestamp': ..., **data}
DataWithTime(point, now) ==
    [f \in DOMAIN point \cup {"timestamp"} |->
        IF f \in DOMAIN point THEN point[f] ELSE now]

\* record_data putting the point at the front of the buffer
RecordData_Prepend(rec, point, now) ==
    IF ~rec.recording THEN rec
    ELSE [rec EXCEPT
            !.files[rec.csv_writer].rows = @ + 1,
            !.data_buffer = <<DataWithTime(point, now)>> \o @]

\* lines 62-78
RecordData(rec, point, now) ==
    IF ~rec.recording THEN rec
    ELSE [rec EXCEPT
            !.files[rec.csv_writer].rows = @ + 1,
            !.data_buffer = Append(@, DataWithTime(point, now))]

\* lines 80-98
StopRecording(rec) ==
    IF ~rec.recording THEN [rec |-> rec, ret |-> 0]
    ELSE [rec |-> [current_file |-> 0, csv_writer |-> 0, file_handle |-> 0,
                   recording |-> FALSE, data_buffer |-> rec.data_buffer,
                   files |-> IF rec.file_handle # 0
                             THEN [rec.files EXCEPT
                                     ![rec.file_handle].open = FALSE]
                             ELSE rec.files],
          ret |-> rec.current_file]

\* lines 100-102: a new list with the elements of the buffer
GetBufferData(rec) == rec.data_buffer

-----------------------------------------------------------------------------
(* WorkoutMonitor.__init__ *)

\* None in self.command
NoCommand == "None"

\* main.py lines 16-23, before run is called
MonitorConstructed ==
    /\ monitor_recording = FALSE
    /\ running = TRUE
    /\ command = NoCommand
    /\ recent_stroke_lengths = <<>>
    /\ last_stroke_count = 0
    /\ main_pc = "check"
    /\ cmd = NoCommand
    /\ input_pc = "test"
    /\ stored = <<>>
    /\ processed = <<>>
    /\ slot_id = 0
    /\ cmd_id = 0
    /\ passed = <<>>

DriverIdle ==
    /\ recorder = NewRecorder
    /\ returned = NothingReturned
    /\ MonitorConstructed

-----------------------------------------------------------------------------
(* Actions of the analyzer *)

GetSummaryStats ==
    /\ pc \in {"idle", "returned"}
    /\ stats' = SummaryStats(data)
    /\ UNCHANGED <<data, time_unit, pc, i, splits, current_split, split_distance,
                   split_result, simVars, driverVars>>

\* the list a call with argument sd returned; it stays with the caller until
\* the next call returns
SplitList(sd, sp) == [kind |-> "list", split_distance |-> sd, splits |-> sp]

\* the call with `splits` kept from the previous call
GetSplitAnalysis_KeepSplits(sd) ==
    /\ pc \in {"idle", "returned"}
    /\ pc' = "loop"
    /\ split_distance' = sd
    /\ current_split' = InitialSplit
    /\ i' = 0
    /\ UNCHANGED <<data, time_unit, splits, split_result, stats, simVars, driverVars>>

\* lines 111-112: the call and the initialisation of the locals
GetSplitAnalysis(sd) ==
    /\ pc \in {"idle", "returned"}
    /\ pc' = "loop"
    /\ split_distance' = sd
    /\ splits' = <<>>
    /\ current_split' = InitialSplit
    /\ i' = 0
    /\ UNCHANGED <<data, time_unit, split_result, stats, simVars, driverVars>>

\* lines 114-139: one iteration of `for i, point in enumerate(self.data)`
SplitLoop ==
    /\ pc = "loop"
    /\ i < Len(data)
    /\ LET r == LoopBody(data, i, splits, current_split, split_distance) IN
           /\ splits' = r.splits
           /\ current_split' = r.current_split
    /\ i' = i + 1
    /\ UNCHANGED <<data, time_unit, pc, split_distance, split_result, stats, simVars, driverVars>>

\* line 141
SplitReturn ==
    /\ pc = "loop"
    /\ i = Len(data)
    /\ pc' = "returned"
    /\ split_result' = SplitList(split_distance, splits)
    /\ UNCHANGED <<data, time_unit, i, splits, current_split, split_distance, stats,
                   simVars, driverVars>>

InitAnalyzer ==
    /\ \/ /\ data \in SplitInputs(MaxLen, MaxAnyLen)
          /\ time_unit = "tenth"
       \/ /\ data \in StatInputs(MaxStatLen)
          /\ time_unit \in TimeUnits
    /\ pc = "idle"
    /\ i = 0
    /\ splits = <<>>
    /\ current_split = InitialSplit
    /\ split_distance = 500
    /\ split_result = NoResult
    /\ stats = NoResult
    /\ SimConstructed(35, 100)
    /\ current_time = StartTime
    /\ DriverIdle

NextAnalyzer ==
    \/ GetSummaryStats
    \/ \E sd \in SplitDistances : GetSplitAnalysis(sd)
    \/ SplitLoop
    \/ SplitReturn

SpecAnalyzer == InitAnalyzer /\ [][NextAnalyzer]_vars

-----------------------------------------------------------------------------
(* PM5Simulator.get_monitor_data *)

\* configurations of the simulator: target_spm (strokes per minute) and
\* target_pace (seconds per 500 m)
SpmTargets == {35, 150}
PaceTargets == {3, 100}

\* wall-clock time between two reads of time.time(): the 0.5 s polling
\* interval of the callers, or a slow caller
Gaps == {5, 20}

\* a symmetric jitter, 1.4 + random.uniform(-0.15, 0.15)
StrokeMeters_Symmetric == {125, 140, 155}

\* 1.4 + random.uniform(-0.1, 0.15), hundredths of a metre
StrokeMeters == {130, 140, 155}
\* random.uniform(-3, 5), tenths of a stroke per minute
SpmJitter == {-30, 50}
\* random.uniform(-5, 5), seconds
PaceJitter == {-5, -3, 0, 5}
\* random.randint(-15, 15)
HeartJitter == {-15, 15}

\* round(a / b) with b > 0, ties to even, as Python's round
RoundDiv(a, b) ==
    LET q == a \div b
        r == a % b
    IN  IF 2 * r < b THEN q
        ELSE IF 2 * r > b THEN q + 1
        ELSE IF q % 2 = 0 THEN q ELSE q + 1

\* round(w * p / m), computed without leaving 32 bits
RoundMulDiv(w, p, m) ==
    LET whole == w * (p \div m)
        q == (w * (p % m)) \div m
        r == (w * (p % m)) % m
    IN  IF 2 * r < m THEN whole + q
        ELSE IF 2 * r > m THEN whole + q + 1
        ELSE IF (whole + q) % 2 = 0 THEN whole + q ELSE whole + q + 1


\* Python's `/`
Divide(a, b) ==
    IF b = 0 THEN Raised("ZeroDivisionError")
    ELSE IF b > 0 THEN Value(a \div b)
    ELSE Value(0 - (a \div (0 - b)))

\* line 70: time_since_last_stroke >= 60.0 / target_spm, with the time in
\* tenths of a second
\* the stroke interval 60 / target_spm taken as a whole number of seconds
StrokeDue_IntegerInterval(time_since_last_stroke, spm) ==
    time_since_last_stroke >= 10 * (60 \div spm)

StrokeDue(time_since_last_stroke, spm) == time_since_last_stroke * spm >= 600

\* line 84: (current_pace / 500.0) ** 3, in units of 1 / 500^3
PaceFactor(pace) == pace * pace * pace

\* 2.8 * 500^3: the numerator of line 85 in the units of PaceFactor
PowerConstant == 350000000

\* the division without the guard on pace_factor
Power_NoGuard(pace) == Divide(PowerConstant, PaceFactor(pace))

\* line 85
Power(pace) ==
    LET pace_factor == PaceFactor(pace) IN
    IF pace_factor > 0 THEN Divide(PowerConstant, pace_factor) ELSE Value(0)

\* line 88: (workout_time / 3600) * (power * 4), tenths of a calorie, from the
\* workout time in hundredths of a second
Calories(wt, power) == RoundMulDiv(wt, power, 9000)

\* line 55: the value `calories` keeps on a tick without rowing
IdleCalories == 0

\* the increment of line 64 made on every tick
WorkoutTimeAfter_Always(rowing, wt) == wt + 50

\* lines 58 and 64: workout_time += 0.5 on a rowing tick
WorkoutTimeAfter(rowing, wt) == IF rowing THEN wt + 50 ELSE wt

\* line 94
StrokeLength(td, sc) == IF sc > 0 THEN RoundDiv(td, sc) ELSE 0

\* cumulative fields reported as 0 on a tick without rowing, as calories is
MonitorSample_IdleZero(wt, td, sc, spm, pace, power, calories, hr) ==
    [kind |-> "data",
     time |-> RoundDiv(wt, 10),
     distance |-> IF spm = 0 THEN 0 ELSE td \div 100,
     stroke_rate |-> spm,
     pace |-> 10 * pace,
     power |-> power,
     calories |-> calories,
     heart_rate |-> hr,
     stroke_count |-> IF spm = 0 THEN 0 ELSE sc,
     stroke_length |-> StrokeLength(td, sc)]

\* lines 96-106
MonitorSample(wt, td, sc, spm, pace, power, calories, hr) ==
    [kind |-> "data",
     time |-> RoundDiv(wt, 10),
     distance |-> td \div 100,
     stroke_rate |-> spm,
     pace |-> 10 * pace,
     power |-> power,
     calories |-> calories,
     heart_rate |-> hr,
     stroke_count |-> sc,
     stroke_length |-> StrokeLength(td, sc)]

\* the status taken from the tick just made instead of from is_rowing
GetStatus_ActiveNow == IF active THEN "Rowing" ELSE "Ready"

\* lines 108-112: a read of is_rowing, no state is changed
GetStatus == IF is_rowing THEN "Rowing" ELSE "Ready"

Connect ==
    /\ ~connected
    /\ connected' = TRUE
    /\ UNCHANGED <<workout_time, total_distance, stroke_count, is_rowing,
                   target_spm, target_pace, last_stroke_time, current_time,
                   sample, active, calls, analyzerVars, driverVars>>

Disconnect ==
    /\ connected
    /\ connected' = FALSE
    /\ UNCHANGED <<workout_time, total_distance, stroke_count, is_rowing,
                   target_spm, target_pace, last_stroke_time, current_time,
                   sample, active, calls, analyzerVars, driverVars>>

\* lines 44-45
GetMonitorDataDisconnected ==
    /\ ~connected
    /\ sample # NoSample
    /\ sample' = NoSample
    /\ UNCHANGED <<connected, workout_time, total_distance, stroke_count,
                   is_rowing, target_spm, target_pace, last_stroke_time,
                   current_time, active, calls, analyzerVars, driverVars>>

\* lines 47-106; `rowing` is the outcome of random.random() < 0.8, `gap` the
\* wall-clock time since the clock was last read
MonitorDataStep(rowing, gap, meters_per_stroke, spm_j, pace_j, hr_j) ==
    /\ connected
    /\ calls < MaxCalls
    /\ LET now == current_time + gap
           last == IF rowing /\ ~is_rowing THEN now ELSE last_stroke_time
           wt == WorkoutTimeAfter(rowing, workout_time)
           stroke == rowing /\ StrokeDue(now - last, target_spm)
           sc == IF stroke THEN stroke_count + 1 ELSE stroke_count
           td == IF stroke THEN total_distance + meters_per_stroke
                 ELSE total_distance
           current_spm == IF rowing THEN 10 * target_spm + spm_j ELSE 0
           current_pace == IF rowing THEN target_pace + pace_j ELSE 0
           power == IF rowing THEN Power(current_pace) ELSE Value(0)
           heart_rate == IF rowing THEN 175 + hr_j ELSE 140
       IN  /\ current_time' = now
           /\ is_rowing' = (is_rowing \/ rowing)
           /\ workout_time' = wt
           /\ stroke_count' = sc
           /\ total_distance' = td
           /\ last_stroke_time' = IF stroke THEN now ELSE last
           /\ active' = rowing
           /\ sample' =
                IF power.kind = "raise" THEN power
                ELSE MonitorSample(wt, td, sc, current_spm, current_pace,
                                   power.v,
                                   IF rowing THEN Calories(wt, power.v)
                                   ELSE IdleCalories,
                                   heart_rate)
    /\ calls' = calls + 1
    /\ UNCHANGED <<connected, target_spm, target_pace>>

\* a call made on the simulator alone
GetMonitorData(rowing, gap, meters_per_stroke, spm_j, pace_j, hr_j) ==
    /\ MonitorDataStep(rowing, gap, meters_per_stroke, spm_j, pace_j, hr_j)
    /\ UNCHANGED <<analyzerVars, driverVars>>

\* a call whose random.random() is 0.8 or more: no other random draw is made
IdleTick(gap) == GetMonitorData(FALSE, gap, 0, 0, 0, 0)

AnalyzerIdle ==
    /\ data = <<>>
    /\ time_unit = "tenth"
    /\ pc = "idle"
    /\ i = 0
    /\ splits = <<>>
    /\ current_split = InitialSplit
    /\ split_distance = 500
    /\ split_result = NoResult
    /\ stats = NoResult

InitSim ==
    /\ \E spm \in SpmTargets, pace \in PaceTargets : SimConstructed(spm, pace)
    /\ current_time = StartTime
    /\ AnalyzerIdle
    /\ DriverIdle

NextSim ==
    \/ Connect
    \/ Disconnect
    \/ GetMonitorDataDisconnected
    \/ \E gap \in Gaps : IdleTick(gap)
    \/ \E gap \in Gaps, m \in StrokeMeters, sj \in SpmJitter,
          pj \in PaceJitter, hj \in HeartJitter :
            GetMonitorData(TRUE, gap, m, sj, pj, hj)

SpecSim == InitSim /\ [][NextSim]_vars

\* The scenario "always active, a stroke due at every call": every tick rows
\* and the stroke interval 60 / target_spm is shorter than the gap between calls.
SeededStep ==
    \E gap \in Gaps, m \in StrokeMeters, sj \in SpmJitter, pj \in PaceJitter,
       hj \in HeartJitter :
        /\ gap * target_spm > 600
        /\ GetMonitorData(TRUE, gap, m, sj, pj, hj)

NextSeeded ==
    \/ Connect
    \/ SeededStep

SpecSeeded == InitSim /\ [][NextSeeded]_vars

-----------------------------------------------------------------------------
(* The DataRecorder driven by any caller: every method in every state *)

RecorderPoints == {RowingSample(5, 2), RowingSample(10, 4)}

CallStartRecording ==
    /\ Len(recorder.files) < MaxFiles
    /\ LET r == StartRecording(recorder) IN
           /\ recorder' = r.rec
           /\ returned' = Returned("start_recording", r.ret)
    /\ UNCHANGED <<analyzerVars, simVars, monitorVars>>

CallRecordData(point) ==
    /\ Len(recorder.data_buffer) < MaxBuffer
    /\ recorder' = RecordData(recorder, point, current_time)
    /\ returned' = Returned("record_data", 0)
    /\ UNCHANGED <<analyzerVars, simVars, monitorVars>>

CallStopRecording ==
    /\ LET r == StopRecording(recorder) IN
           /\ recorder' = r.rec
           /\ returned' = Returned("stop_recording", r.ret)
    /\ UNCHANGED <<analyzerVars, simVars, monitorVars>>

CallGetBufferData ==
    /\ returned' = Returned("get_buffer_data", GetBufferData(recorder))
    /\ UNCHANGED <<recorder, analyzerVars, simVars, monitorVars>>

InitRecorder ==
    /\ AnalyzerIdle
    /\ SimConstructed(35, 100)
    /\ current_time = StartTime
    /\ DriverIdle

NextRecorder ==
    \/ CallStartRecording
    \/ \E point \in RecorderPoints : CallRecordData(point)
    \/ CallStopRecording
    \/ CallGetBufferData

SpecRecorder == InitRecorder /\ [][NextRecorder]_vars

-----------------------------------------------------------------------------
(* WorkoutMonitor: the main thread in run and the input thread.  A step is  *)
(* one read or one write of an attribute shared by the two threads, or the  *)
(* code of one thread between two of them.                                  *)

\* the lines input().strip().lower() gives
Lines == {"start", "stop", "quit", ""}

\* the draws of get_monitor_data in one pass of the loop; time.sleep(0.5) of
\* line 135 is the gap before the next call
MonitorTicks ==
    {[rowing |-> r, gap |-> 5, meters |-> 140, spm_j |-> 50, pace_j |-> 0,
      hr_j |-> 15] : r \in BOOLEAN}

\* line 72: DataAnalyzer(data)
NewAnalyzer(d) ==
    /\ data' = d
    /\ time_unit' = "tenth"
    /\ pc' = "idle"
    /\ i' = 0
    /\ splits' = <<>>
    /\ current_split' = InitialSplit
    /\ split_distance' = 500
    /\ split_result' = NoResult
    /\ stats' = NoResult

\* lines 27-30: `while self.running`, then the thread blocks in input()
InputTest ==
    /\ input_pc = "test"
    /\ input_pc' = IF running THEN "input" ELSE "done"
    /\ UNCHANGED <<analyzerVars, simVars, recorderVars, monitor_recording,
                   running, command, recent_stroke_lengths, last_stroke_count,
                   main_pc, cmd, stored, processed, slot_id, cmd_id, passed>>

\* lines 29-30: a line arrives and is stored in self.command
InputStore(line) ==
    /\ input_pc = "input"
    /\ Len(stored) < MaxCommands
    /\ command' = line
    /\ stored' = Append(stored, line)
    /\ slot_id' = Len(stored) + 1
    /\ input_pc' = "test"
    /\ UNCHANGED <<analyzerVars, simVars, recorderVars, monitor_recording,
                   running, recent_stroke_lengths, last_stroke_count, main_pc,
                   cmd, processed, cmd_id, passed>>

\* lines 31-32: input() raises (end of input)
InputFails ==
    /\ input_pc = "input"
    /\ input_pc' = "done"
    /\ UNCHANGED <<analyzerVars, simVars, recorderVars, monitor_recording,
                   running, command, recent_stroke_lengths, last_stroke_count,
                   main_pc, cmd, stored, processed, slot_id, cmd_id, passed>>

\* lines 49-51: `while self.running` (true whenever the test is reached: only
\* `quit` and the finally clause clear it) and `if self.command:`
MainCheck ==
    /\ main_pc = "check"
    /\ main_pc' = IF command \notin {NoCommand, ""} THEN "read" ELSE "poll"
    /\ UNCHANGED <<analyzerVars, simVars, recorderVars, monitor_recording,
                   running, command, recent_stroke_lengths, last_stroke_count,
                   cmd, input_pc, stored, processed, slot_id, cmd_id, passed>>

\* line 52: cmd = self.command
MainRead ==
    /\ main_pc = "read"
    /\ cmd' = command
    /\ cmd_id' = slot_id
    /\ main_pc' = "clear"
    /\ UNCHANGED <<analyzerVars, simVars, recorderVars, monitor_recording,
                   running, command, recent_stroke_lengths, last_stroke_count,
                   input_pc, stored, processed, slot_id, passed>>

\* line 53: self.command = None
MainClear ==
    /\ main_pc = "clear"
    /\ command' = NoCommand
    /\ slot_id' = 0
    /\ main_pc' = "dispatch"
    /\ UNCHANGED <<analyzerVars, simVars, recorderVars, monitor_recording,
                   running, recent_stroke_lengths, last_stroke_count, cmd,
                   input_pc, stored, processed, cmd_id, passed>>

\* lines 55-61
DispatchStart ==
    /\ main_pc = "dispatch"
    /\ cmd = "start"
    /\ processed' = Append(processed, cmd_id)
    /\ IF ~monitor_recording
       THEN /\ recorder' = StartRecording(recorder).rec
            /\ returned' = Returned("start_recording",
                                    StartRecording(recorder).ret)
            /\ monitor_recording' = TRUE
            /\ passed' = IF StartRecording(recorder).ret # 0 THEN <<>>
                         ELSE passed
       ELSE UNCHANGED <<recorderVars, monitor_recording, passed>>
    /\ main_pc' = "poll"
    /\ UNCHANGED <<analyzerVars, simVars, running, command,
                   recent_stroke_lengths, last_stroke_count, cmd, input_pc,
                   stored, slot_id, cmd_id>>

\* lines 63-72 and 88-89: stop_recording, get_buffer_data, DataAnalyzer(data)
DispatchStop ==
    /\ main_pc = "dispatch"
    /\ cmd = "stop"
    /\ processed' = Append(processed, cmd_id)
    /\ IF monitor_recording
       THEN /\ recorder' = StopRecording(recorder).rec
            /\ returned' = Returned("get_buffer_data",
                                    GetBufferData(recorder'))
            /\ monitor_recording' = FALSE
            /\ NewAnalyzer(GetBufferData(recorder'))
            /\ main_pc' = "summary"
       ELSE /\ main_pc' = "poll"
            /\ UNCHANGED <<analyzerVars, recorderVars, monitor_recording>>
    /\ UNCHANGED <<simVars, running, command, recent_stroke_lengths,
                   last_stroke_count, cmd, input_pc, stored, slot_id, cmd_id,
                   passed>>

\* lines 91-97 and 142-143
DispatchQuit ==
    /\ main_pc = "dispatch"
    /\ cmd = "quit"
    /\ processed' = Append(processed, cmd_id)
    /\ IF monitor_recording
       THEN /\ recorder' = StopRecording(recorder).rec
            /\ returned' = Returned("stop_recording",
                                    StopRecording(recorder).ret)
       ELSE UNCHANGED recorderVars
    /\ running' = FALSE
    /\ main_pc' = "exit"
    /\ UNCHANGED <<analyzerVars, simVars, monitor_recording, command,
                   recent_stroke_lengths, last_stroke_count, cmd, input_pc,
                   stored, slot_id, cmd_id, passed>>

\* lines 55-91 with a line that is no command: no branch is taken
DispatchOther ==
    /\ main_pc = "dispatch"
    /\ cmd \notin {"start", "stop", "quit"}
    /\ processed' = Append(processed, cmd_id)
    /\ main_pc' = "poll"
    /\ UNCHANGED <<analyzerVars, simVars, recorderVars, monitor_recording,
                   running, command, recent_stroke_lengths, last_stroke_count,
                   cmd, input_pc, stored, slot_id, cmd_id, passed>>

\* line 73: print_summary calls get_summary_stats; an exception leaves run
\* through the finally clause
MainSummary ==
    /\ main_pc = "summary"
    /\ stats' = SummaryStats(data)
    /\ IF stats'.kind = "raise"
       THEN main_pc' = "exit" /\ running' = FALSE
       ELSE main_pc' = "splits" /\ running' = running
    /\ UNCHANGED <<data, time_unit, pc, i, splits, current_split,
                   split_distance, split_result, simVars, recorderVars,
                   monitor_recording, command, recent_stroke_lengths,
                   last_stroke_count, cmd, input_pc, stored, processed,
                   slot_id, cmd_id, passed>>

\* line 76: get_split_analysis(500), step by step
MainSplits ==
    /\ main_pc = "splits"
    /\ \/ pc = "idle" /\ GetSplitAnalysis(500)
       \/ SplitLoop
       \/ SplitReturn

\* lines 77-87: the splits are printed
MainSplitsPrinted ==
    /\ main_pc = "splits"
    /\ pc = "returned"
    /\ main_pc' = "poll"
    /\ UNCHANGED <<analyzerVars, simVars, recorderVars, monitor_recording,
                   running, command, recent_stroke_lengths, last_stroke_count,
                   cmd, input_pc, stored, processed, slot_id, cmd_id, passed>>

\* lines 108-115: the last 5 stroke lengths
RecentStrokeLengths(recent, point, last_count) ==
    IF point.stroke_count > last_count
    THEN LET longer == Append(recent, point.stroke_length)
         IN  IF Len(longer) > 5 THEN Tail(longer) ELSE longer
    ELSE recent

\* lines 100-135: one reading of the monitor, recorded while recording; with
\* no reading (None) the loop only sleeps, an exception leaves run
MainPoll ==
    /\ main_pc = "poll"
    /\ \E t \in MonitorTicks :
          MonitorDataStep(t.rowing, t.gap, t.meters, t.spm_j, t.pace_j, t.hr_j)
    /\ IF sample'.kind = "data"
       THEN /\ recorder' = IF monitor_recording
                           THEN RecordData(recorder, sample', current_time')
                           ELSE recorder
            /\ passed' = IF monitor_recording THEN Append(passed, sample')
                         ELSE passed
            /\ recent_stroke_lengths' =
                  RecentStrokeLengths(recent_stroke_lengths, sample',
                                      last_stroke_count)
            /\ last_stroke_count' =
                  IF sample'.stroke_count > last_stroke_count
                  THEN sample'.stroke_count ELSE last_stroke_count
            /\ main_pc' = "check"
            /\ running' = running
       ELSE /\ main_pc' = IF sample'.kind = "raise" THEN "exit" ELSE "check"
            /\ running' = (running /\ sample'.kind # "raise")
            /\ UNCHANGED <<recorder, passed, recent_stroke_lengths,
                           last_stroke_count>>
    /\ UNCHANGED <<analyzerVars, returned, monitor_recording, command, cmd,
                   input_pc, stored, processed, slot_id, cmd_id>>

\* lines 137-143: Ctrl+C while the main thread is in the loop
KeyboardInterrupt ==
    /\ main_pc # "exit"
    /\ IF monitor_recording
       THEN /\ recorder' = StopRecording(recorder).rec
            /\ returned' = Returned("stop_recording",
                                    StopRecording(recorder).ret)
       ELSE UNCHANGED recorderVars
    /\ running' = FALSE
    /\ main_pc' = "exit"
    /\ UNCHANGED <<analyzerVars, simVars, monitor_recording, command,
                   recent_stroke_lengths, last_stroke_count, cmd, input_pc,
                   stored, processed, slot_id, cmd_id, passed>>

\* main(): the simulator is constructed and connected, then run is entered
InitMonitor ==
    /\ AnalyzerIdle
    /\ connected = TRUE
    /\ workout_time = 0
    /\ total_distance = 0
    /\ stroke_count = 0
    /\ is_rowing = FALSE
    /\ target_spm = 35
    /\ target_pace = 100
    /\ last_stroke_time = 0
    /\ sample = NoSample
    /\ active = FALSE
    /\ calls = 0
    /\ current_time = StartTime
    /\ recorder = NewRecorder
    /\ returned = NothingReturned
    /\ monitor_recording = FALSE
    /\ running = TRUE
    /\ command = NoCommand
    /\ recent_stroke_lengths = <<>>
    /\ last_stroke_count = 0
    /\ main_pc = "check"
    /\ cmd = NoCommand
    /\ input_pc = "test"
    /\ stored = <<>>
    /\ processed = <<>>
    /\ slot_id = 0
    /\ cmd_id = 0
    /\ passed = <<>>

NextMonitor ==
    \/ InputTest
    \/ \E line \in Lines : InputStore(line)
    \/ InputFails
    \/ MainCheck
    \/ MainRead
    \/ MainClear
    \/ DispatchStart
    \/ DispatchStop
    \/ DispatchQuit
    \/ DispatchOther
    \/ MainSummary
    \/ MainSplits
    \/ MainSplitsPrinted
    \/ MainPoll
    \/ KeyboardInterrupt

SpecMonitor == InitMonitor /\ [][NextMonitor]_vars

-----------------------------------------------------------------------------
(* Properties of the analyzer, checked under SpecAnalyzer *)

SplitTimes(sp) == [k \in 1..Len(sp) |-> sp[k].time]
Distances(d) == FieldValues(d, "distance")
Times(d) == FieldValues(d, "time")

\* C1: on an empty sample sequence get_summary_stats returns the empty result
\* and get_split_analysis returns an empty list, for every split_distance;
\* neither call raises.
EmptyInputGivesEmptyResults ==
    data = <<>> =>
        /\ stats \in {NoResult, EmptyStats}
        /\ split_result.kind = "list" => split_result.splits = <<>>
        /\ pc = "returned" => split_result = SplitList(split_distance, <<>>)

EmptyInputAnalyzed ==
    /\ data = <<>>
    /\ stats = EmptyStats
    /\ pc = "returned"
    /\ split_distance = 250
    /\ split_result = SplitList(250, <<>>)

\* C2: the running start_distance starts at the distance of the first sample:
\* the first split is closed at the first index whose distance reaches
\* samples[0].distance + split_distance, and at no earlier index.
FirstSplitMeasuredFromFirstSample ==
    (pc = "returned" /\ data # <<>>) =>
        LET boundary == data[1].distance + split_distance
            reached == {k \in 0..(Len(data) - 1) : At(data, k).distance >= boundary}
        IN  IF reached = {} THEN split_result.splits = <<>>
            ELSE /\ split_result.splits # <<>>
                 /\ \A k \in reached : split_result.splits[1].last_idx <= k
                 /\ split_result.splits[1].last_idx \in reached

\* C8: for non-decreasing, non-negative times the split times sum to at most
\* the time of the last sample.
SplitTimesWithinWorkoutTime ==
    (pc = "returned" /\ data # <<>> /\ NonDecreasing(Times(data))
        /\ data[1].time >= 0) =>
        SumSeq(SplitTimes(split_result.splits)) <= data[Len(data)].time

TwoSplitsAfterLateStart ==
    /\ pc = "returned"
    /\ Len(split_result.splits) = 2
    /\ data[1].time > 0
    /\ split_result.splits[1].time > 0
    /\ split_result.splits[2].time > 0
    /\ split_result.splits[2].last_idx < Len(data) - 1

\* C9: distances 0, 100, 250, 520, 640 with split_distance 500 give exactly
\* one split, closed at index 3, of time samples[3].time - samples[0].time;
\* the sample at 640 gives no partial split.
ScenarioOneSplit ==
    (pc = "returned" /\ Distances(data) = <<0, 100, 250, 520, 640>>
        /\ split_distance = 500) =>
        /\ Len(split_result.splits) = 1
        /\ split_result.splits[1].split_number = 1
        /\ split_result.splits[1].first_idx = 0
        /\ split_result.splits[1].last_idx = 3
        /\ split_result.splits[1].time = At(data, 3).time - At(data, 0).time

ScenarioAnalyzed ==
    /\ pc = "returned"
    /\ Distances(data) = <<0, 100, 250, 520, 640>>
    /\ split_distance = 500
    /\ At(data, 0).time > 0
    /\ At(data, 3).time > At(data, 0).time
    /\ At(data, 4).time > At(data, 3).time
    /\ Len(split_result.splits) = 1

PositiveStrokeLengths(d) == {k \in 1..Len(d) : d[k].stroke_length > 0}

\* get_summary_stats returned a record, or raised at line 61 at the earliest
ReturnedUnlessHoursZero ==
    stats.kind = "stats" \/ HoursRoundToZero(data[Len(data)].time)

\* C10: on a non-empty sequence the stroke_length_consistency returned is
\* exactly 100 whenever fewer than 2 samples have stroke_length > 0, and the
\* consistency formula raises nothing.
FewStrokeLengthsGiveHundred ==
    (stats # NoResult /\ data # <<>>
        /\ Cardinality(PositiveStrokeLengths(data)) < 2) =>
        /\ ReturnedUnlessHoursZero
        /\ stats.kind = "stats" => stats.stroke_length_consistency = Hundred

OneStrokeLengthAmongZeros ==
    /\ stats.kind = "stats"
    /\ Len(data) >= 3
    /\ Cardinality(PositiveStrokeLengths(data)) = 1
    /\ stats.stroke_length_consistency = Hundred

-----------------------------------------------------------------------------
(* Properties of the simulator, checked under SpecSim *)

\* C3: the calories of each returned sample are at least the calories of the
\* previously returned sample; an idle tick reports the calories of the tick
\* before it.
CaloriesNeverDecrease ==
    [][(sample.kind = "data" /\ sample'.kind = "data")
          => sample'.calories >= sample.calories]_vars

\* C4: stroke_count, total_distance and workout_time, in the state and in the
\* returned samples, never decrease from one call to the next.
CountersNeverDecrease ==
    [][/\ stroke_count' >= stroke_count
       /\ total_distance' >= total_distance
       /\ workout_time' >= workout_time
       /\ (sample.kind = "data" /\ sample'.kind = "data") =>
            /\ sample'.stroke_count >= sample.stroke_count
            /\ sample'.distance >= sample.distance
            /\ sample'.time >= sample.time]_vars

IdleTickAfterStrokes ==
    /\ sample.kind = "data"
    /\ ~active
    /\ calls >= 3
    /\ stroke_count >= 2
    /\ sample.distance >= 2

\* C5 as stated: with every tick active and the stroke interval shorter than
\* the gap between calls, every call, the first one included, adds exactly one
\* stroke and between 1.3 and 1.55 m.
EveryCallStrokes ==
    [][calls' = calls + 1 =>
          /\ stroke_count' = stroke_count + 1
          /\ total_distance' - total_distance \in 130..155]_vars

\* C5 amended: under the same scenario every call but the first adds exactly
\* one stroke and between 1.3 and 1.55 m; the first call after construction
\* starts the stroke timer and adds no stroke and no distance.
EveryCallButFirstStrokes ==
    [][calls' = calls + 1 =>
          IF calls = 0
          THEN /\ stroke_count' = stroke_count
               /\ total_distance' = total_distance
               /\ last_stroke_time' = current_time'
          ELSE /\ stroke_count' = stroke_count + 1
               /\ total_distance' - total_distance \in 130..155]_vars

ThreeCallsTwoStrokes ==
    /\ calls = 3
    /\ stroke_count = 2
    /\ total_distance \in 260..310

\* C6: on every active tick the pace is clamped to a strictly positive value,
\* so the pace reported by an active tick is > 0 for every target_pace.
ActivePaceIsPositive ==
    (sample.kind = "data" /\ active) => sample.pace > 0

-----------------------------------------------------------------------------
(* Further properties of the analyzer, checked under SpecAnalyzer *)

PositiveIdx(d, f) == {k \in 1..Len(d) : d[k][f] > 0}
PositiveValues(d, f) == {d[k][f] : k \in PositiveIdx(d, f)}

RECURSIVE SumAt(_, _, _)
SumAt(d, f, idx) ==
    IF idx = {} THEN 0
    ELSE LET k == CHOOSE x \in idx : TRUE
         IN  d[k][f] + SumAt(d, f, idx \ {k})

\* C11: on a non-empty sequence worst <= avg <= best stroke length, worst and
\* best being the least and the greatest stroke_length > 0; with no
\* stroke_length > 0 all three are 0.
AverageBetweenWorstAndBest ==
    /\ (stats # NoResult /\ data # <<>>) => ReturnedUnlessHoursZero
    /\ (stats.kind = "stats" /\ data # <<>>) =>
        /\ LET pos == PositiveValues(data, "stroke_length")
               avg == stats.avg_stroke_length
               best == stats.best_stroke_length
               worst == stats.worst_stroke_length
           IN  IF pos = {}
               THEN avg.num = 0 /\ best = 0 /\ worst = 0
               ELSE /\ worst \in pos
                    /\ best \in pos
                    /\ \A v \in pos : worst <= v /\ v <= best
                    /\ worst * avg.den <= avg.num
                    /\ avg.num <= best * avg.den

AverageStrictlyBetween ==
    /\ stats.kind = "stats"
    /\ \E k \in 1..Len(data) : data[k].stroke_length = 0
    /\ data[1].stroke_length > data[Len(data)].stroke_length
    /\ data[Len(data)].stroke_length > 0
    /\ stats.worst_stroke_length * stats.avg_stroke_length.den
          < stats.avg_stroke_length.num
    /\ stats.avg_stroke_length.num
          < stats.best_stroke_length * stats.avg_stroke_length.den

\* C12: on a non-empty sequence total_time, total_distance and total_strokes
\* are the time, distance and stroke_count of the last sample.
TotalsAreLastSample ==
    /\ (stats # NoResult /\ data # <<>>) => ReturnedUnlessHoursZero
    /\ (stats.kind = "stats" /\ data # <<>>) =>
        /\ stats.total_time = data[Len(data)].time
        /\ stats.total_distance = data[Len(data)].distance
        /\ stats.total_strokes = data[Len(data)].stroke_count

TotalsOfLongerSequence ==
    /\ stats.kind = "stats"
    /\ Len(data) >= 3
    /\ data[1].time < data[Len(data)].time
    /\ data[1].distance < data[Len(data)].distance
    /\ data[1].stroke_count < data[Len(data)].stroke_count
    /\ stats.total_time = data[Len(data)].time

AveragedFields == {"stroke_length", "stroke_rate", "pace", "power"}

AverageOf(st, f) ==
    CASE f = "stroke_length" -> st.avg_stroke_length
      [] f = "stroke_rate" -> st.avg_stroke_rate
      [] f = "pace" -> st.avg_pace
      [] f = "power" -> st.avg_power

\* C13: each of the four averages is the arithmetic mean of exactly the sample
\* values > 0 of its field, and 0 when the field has no value > 0.
AveragesAreMeansOfPositiveValues ==
    /\ (stats # NoResult /\ data # <<>>) => ReturnedUnlessHoursZero
    /\ (stats.kind = "stats" /\ data # <<>>) =>
        /\ \A f \in AveragedFields :
              LET idx == PositiveIdx(data, f)
                  avg == AverageOf(stats, f)
              IN  /\ avg.den > 0
                  /\ IF idx = {} THEN avg.num = 0
                     ELSE avg.num * Cardinality(idx)
                            = SumAt(data, f, idx) * avg.den

ZeroAndPositiveReadingsInEveryField ==
    /\ stats.kind = "stats"
    /\ \A f \in AveragedFields :
          /\ Cardinality(PositiveValues(data, f)) >= 2
          /\ \E k \in 1..Len(data) : data[k][f] = 0
          /\ AverageOf(stats, f).num > 0

\* C14: on a non-empty sequence get_summary_stats returns a complete record
\* and never divides by zero: the mean is not 0 where the consistency formula
\* is evaluated, and avg_calories_per_hour is 0 when the last time is not > 0.
StatsNeverDivideByZero ==
    (stats # NoResult /\ data # <<>>) =>
        /\ stats.kind = "stats"
        /\ Cardinality(PositiveIdx(data, "stroke_length")) >= 2
              => stats.avg_stroke_length.num > 0
        /\ stats.avg_calories_per_hour.den > 0
        /\ data[Len(data)].time <= 0 => stats.avg_calories_per_hour.num = 0

\* C15: both functions leave the sample sequence unchanged and keep no state
\* between calls: a second call on the same sequence (with the same
\* split_distance) returns a result equal to the first.
AnalyzerCallsArePure ==
    [][/\ data' = data
       /\ stats # NoResult => stats' = stats
       /\ (split_result.kind = "list" /\ split_result' # split_result)
             => split_result'.split_distance # split_result.split_distance]_vars

SecondCallAboutToReturn ==
    /\ pc = "loop"
    /\ i = Len(data)
    /\ split_result.kind = "list"
    /\ split_result.split_distance = split_distance
    /\ Len(split_result.splits) = 2
    /\ splits = split_result.splits
    /\ stats.kind = "stats"

AboveHundred(c) == c.sign < 0 /\ c.cv2.num > 0
BelowZero(c) == c.sign > 0 /\ c.cv2.num > c.cv2.den

\* C17 as stated: among the sequences get_summary_stats can be given, with at
\* least 2 positive stroke lengths, there is one whose consistency is below 0
\* and one whose consistency is above 100.
ConsistencyLeavesBothEnds ==
    stats.kind = "stats" =>
    /\ \E d \in StatInputs(MaxStatLen) :
          /\ Cardinality(PositiveIdx(d, "stroke_length")) >= 2
          /\ SummaryStats(d).kind = "stats"
          /\ BelowZero(SummaryStats(d).stroke_length_consistency)
    /\ \E d \in StatInputs(MaxStatLen) :
          /\ Cardinality(PositiveIdx(d, "stroke_length")) >= 2
          /\ SummaryStats(d).kind = "stats"
          /\ AboveHundred(SummaryStats(d).stroke_length_consistency)

\* C17 amended: the consistency is not clamped below, a sequence with at least
\* 2 positive stroke lengths can give a value under 0; it never exceeds 100.
ConsistencyNeverAboveHundred ==
    stats.kind = "stats" =>
        /\ ~AboveHundred(stats.stroke_length_consistency)
        /\ stats.stroke_length_consistency.cv2.den > 0
        /\ stats.stroke_length_consistency.cv2.num >= 0

ConsistencyBelowZero ==
    /\ stats.kind = "stats"
    /\ Cardinality(PositiveIdx(data, "stroke_length")) >= 2
    /\ BelowZero(stats.stroke_length_consistency)

\* C18: for consecutive splits k and k+1 the sample that closed split k is the
\* last sample of split k's slice and the first of split k+1's: split k+1's
\* time runs from that sample and its boundary is that sample's distance +
\* split_distance.
ConsecutiveSplitsShareBoundarySample ==
    pc \in {"loop", "returned"} =>
        \A k \in 1..(Len(splits) - 1) :
            LET closed == splits[k].last_idx
                next == splits[k + 1]
                boundary == At(data, closed).distance + split_distance
            IN  /\ next.first_idx = closed
                /\ next.split_number = splits[k].split_number + 1
                /\ next.time = At(data, next.last_idx).time - At(data, closed).time
                /\ At(data, next.last_idx).distance >= boundary
                /\ \A j \in (closed + 1)..(next.last_idx - 1) :
                       At(data, j).distance < boundary

TwoSplitsShareSample ==
    /\ pc = "returned"
    /\ Len(splits) = 2
    /\ data[1].time = 0
    /\ splits[1].last_idx > 1
    /\ splits[2].first_idx = splits[1].last_idx
    /\ splits[2].last_idx > splits[2].first_idx + 1
    /\ splits[2].time > 0

\* C19: every split spans at least split_distance metres: the distance of the
\* last sample of its slice minus that of the first is >= split_distance, for
\* every sequence with non-decreasing distance, whatever the first distance.
EverySplitSpansSplitDistance ==
    (pc \in {"loop", "returned"} /\ NonDecreasing(Distances(data))) =>
        \A k \in 1..Len(splits) :
            At(data, splits[k].last_idx).distance
                - At(data, splits[k].first_idx).distance >= split_distance

-----------------------------------------------------------------------------
(* Further properties of the simulator, checked under SpecSim *)

\* C16: an idle tick leaves workout_time, total_distance, stroke_count,
\* is_rowing and last_stroke_time unchanged; its sample has stroke_rate = 0,
\* pace = 0, power = 0, heart_rate = 140 and the time, distance and
\* stroke_count of the previously returned sample.
IdleTickLeavesCounters ==
    [][(calls' = calls + 1 /\ ~active') =>
          /\ UNCHANGED <<workout_time, total_distance, stroke_count,
                         is_rowing, last_stroke_time>>
          /\ sample'.kind = "data"
          /\ sample'.stroke_rate = 0
          /\ sample'.pace = 0
          /\ sample'.power = 0
          /\ sample'.heart_rate = 140
          /\ sample'.time = RoundDiv(workout_time, 10)
          /\ sample'.distance = total_distance \div 100
          /\ sample'.stroke_count = stroke_count
          /\ sample.kind = "data" =>
                /\ sample'.time = sample.time
                /\ sample'.distance = sample.distance
                /\ sample'.stroke_count = sample.stroke_count]_vars

IdleSampleAfterRowing ==
    /\ ~active
    /\ calls = MaxCalls
    /\ is_rowing
    /\ stroke_count >= 1
    /\ workout_time >= 100
    /\ sample.kind = "data"
    /\ sample.stroke_rate = 0
    /\ sample.heart_rate = 140
    /\ sample.time >= 1
    /\ sample.stroke_count = stroke_count

\* C20 as stated: a step registers a stroke exactly when the tick is active
\* and now - last_stroke_time >= 60 / target_spm; only in such a step do
\* stroke_count (by 1), last_stroke_time (to now) and total_distance (by an
\* amount in [1.3, 1.55]) change.
StrokeExactlyWhenDue ==
    [][calls' = calls + 1 =>
          LET now == current_time'
              due == active' /\ (now - last_stroke_time) * target_spm >= 600
          IN  IF due
              THEN /\ stroke_count' = stroke_count + 1
                   /\ last_stroke_time' = now
                   /\ total_distance' - total_distance \in 130..155
              ELSE UNCHANGED <<stroke_count, last_stroke_time,
                               total_distance>>]_vars

\* C20 amended: the first active tick sets last_stroke_time to now and
\* registers no stroke; every other step registers a stroke exactly when the
\* tick is active and now - last_stroke_time >= 60 / target_spm.  stroke_count
\* and total_distance change only in a stroke step (by 1 and by an amount in
\* [1.3, 1.55]); last_stroke_time changes only there and on the first active
\* tick.
StrokeExactlyWhenDueAfterFirstTick ==
    [][calls' = calls + 1 =>
          LET now == current_time'
              first == active' /\ ~is_rowing
              due == /\ active'
                     /\ ~first
                     /\ (now - last_stroke_time) * target_spm >= 600
          IN  IF due
              THEN /\ stroke_count' = stroke_count + 1
                   /\ last_stroke_time' = now
                   /\ total_distance' - total_distance \in 130..155
              ELSE /\ UNCHANGED <<stroke_count, total_distance>>
                   /\ last_stroke_time' =
                         IF first THEN now ELSE last_stroke_time]_vars

StrokeAfterTickWithoutStroke ==
    /\ active
    /\ is_rowing
    /\ target_spm = 35
    /\ calls >= 3
    /\ stroke_count >= 1
    /\ stroke_count <= calls - 2
    /\ last_stroke_time = current_time
    /\ total_distance >= 130

\* C21: get_status is "Ready" in every state before the first active tick and
\* "Rowing" in every state after it: the first active tick sets is_rowing
\* (and last_stroke_time = now), nothing clears it, so idle ticks after it
\* still report "Rowing".  workout_time is 0 exactly until the first active
\* tick.
StatusRowingSinceFirstActiveTick ==
    [][LET tick == calls' = calls + 1 /\ active'
       IN  /\ GetStatus = IF workout_time = 0 THEN "Ready" ELSE "Rowing"
           /\ GetStatus' = IF workout_time' = 0 THEN "Ready" ELSE "Rowing"
           /\ GetStatus = "Rowing" => GetStatus' = "Rowing"
           /\ (tick /\ GetStatus = "Ready") =>
                 /\ GetStatus' = "Rowing"
                 /\ last_stroke_time' = current_time'
           /\ ~tick => GetStatus' = GetStatus]_vars

RowingReportedOnIdleTick ==
    /\ GetStatus = "Rowing"
    /\ ~active
    /\ calls >= 2
    /\ workout_time = 50
    /\ sample.kind = "data"
    /\ sample.power = 0

-----------------------------------------------------------------------------
(* Properties of the recorder, checked under SpecRecorder *)

\* C23: out-of-state calls change nothing: start_recording while recording
\* returns None and leaves the buffer and the open file untouched, record_data
\* while not recording appends nothing, stop_recording while not recording
\* returns None and leaves the buffer untouched.
OutOfStateCallsRejected ==
    [][/\ (returned'.call = "start_recording" /\ recorder.recording) =>
             /\ returned'.value = 0
             /\ recorder' = recorder
       /\ (returned'.call = "record_data" /\ ~recorder.recording) =>
             /\ recorder'.data_buffer = recorder.data_buffer
             /\ recorder'.files = recorder.files
             /\ ~recorder'.recording
       /\ (returned'.call = "stop_recording" /\ ~recorder.recording) =>
             /\ returned'.value = 0
             /\ recorder' = recorder]_vars

SecondStartRejectedWhileRecording ==
    /\ returned = Returned("start_recording", 0)
    /\ recorder.recording
    /\ Len(recorder.data_buffer) = 2
    /\ recorder.file_handle = 1
    /\ recorder.files = <<[open |-> TRUE, rows |-> 2]>>

-----------------------------------------------------------------------------
(* Properties of the monitor, checked under SpecMonitor *)

\* a buffered point without the timestamp record_data added
WithoutTime(point) == [f \in DOMAIN point \ {"timestamp"} |-> point[f]]

Analyzing(position) == position \in {"summary", "splits"}

NoCommandLost ==
    [][/\ (/\ slot_id # 0
           /\ slot_id' # slot_id
           /\ stored[slot_id] \in {"start", "stop", "quit"}) =>
             cmd_id = slot_id
       /\ \A a, b \in DOMAIN processed' :
             a # b => processed'[a] # processed'[b]]_vars

====
